---- MODULE Spec2Model ----
(***************************************************************************)
(* Model of HordeWorkerProcessManager                                      *)
(* (horde_worker_regen/process_management/process_manager.py): the         *)
(* process registry, the model map, the job pipeline, the message          *)
(* dispatcher, the scheduler steps of the process-control loop and the     *)
(* API loop.  The worker subprocesses and the dispatch API are the         *)
(* environment: the children answer the control messages they read from    *)
(* their pipes, the API answers each request with one of its outcomes.     *)
(*                                                                         *)
(* Scheduling.  Both loops are tasks of one asyncio event loop, so the     *)
(* code between two awaits is atomic with respect to the other loop.  The  *)
(* process-control tick (lines 1182-1203) contains no await that can       *)
(* block (its locks are always free when it asks for them), so the API     *)
(* loop runs only while the control loop sleeps.  The children run in      *)
(* parallel with a tick, but a tick reads the inbound queue only in the    *)
(* dispatcher and only appends to the pipes; a child step taken during a   *)
(* tick therefore commutes with the rest of the tick and is modelled as    *)
(* taken between two ticks.                                                *)
(*                                                                         *)
(* The inbound queue has several producers: it keeps the order of each     *)
(* child's messages and merges the children's streams in any order.  It    *)
(* is kept as one stream per child, and the dispatcher takes the next      *)
(* message from any non-empty stream.                                      *)
(*                                                                         *)
(* The clock is read only by api_job_pop (line 1048); elapsed_since_pop    *)
(* is the value of time.time() - _last_job_pop_time at the last read, as   *)
(* a region: 0 for [0,1), 1 for [1,5), 5 for [5,oo) seconds.  Each read    *)
(* returns a region at or after the one read before.                       *)
(***************************************************************************)
EXTENDS Integers, Sequences, FiniteSets, TLC

(* ---------------------------- bounds ---------------------------------- *)
MaxJobs == 2            \* stands for _testing_max_jobs: jobs ever popped
NumModels == 2          \* model names are 1..NumModels
MaxConcurrent == 2      \* largest max_concurrent_inference_processes configured
MaxInbound == 3         \* reports of one child waiting in the inbound queue
MaxPipe == 1            \* unread control messages in a pipe when a tick starts
FleetSize == 2          \* max_inference_processes of the fleet configuration

(* ---------------------- program constants ----------------------------- *)
default_queue_size == 1
default_job_pop_frequency == 1
error_job_pop_frequency == 5
total_ram_bytes == 3
target_ram_overhead_bytes == 2
UPLOAD_OK == 200

Models == 1..NumModels
NoModel == 0            \* loaded_horde_model_name = None
NoPid == -1
NoJob == [id |-> 0, model |-> NoModel]
UploadStatuses == {200, 204, 500}

VARIABLES
    max_safety_processes,                \* configuration
    max_inference_processes,             \* configuration
    max_concurrent_inference_processes,  \* configuration
    queue_size,                          \* configuration (bridge_data.queue_size)
    process_map,                \* pid -> [kind, state, model, ram]
    horde_model_map,            \* model -> [state, pid]; state "ABSENT" = no entry
    job_deque,
    jobs_in_progress,
    jobs_pending_safety_check,
    jobs_being_safety_checked,
    completed_jobs,
    total_num_completed_jobs,
    process_message_queue,      \* inbound queue: pid -> reports sent and not yet read
    pipes,                      \* pid -> control messages sent and not yet read
    testing_jobs_added,
    job_pop_frequency,
    elapsed_since_pop,          \* region of time.time() - _last_job_pop_time
    pc,                         \* position of _process_control_loop
    pop_pc,                     \* position of the api_job_pop coroutine
    submit_pc,                  \* position of the api_submit_job coroutine
    child,                      \* pid -> local state of the child process
    popped_ids,                 \* history: ids appended to the deque
    left_ids,                   \* history: ids removed from the deque
    submitted,                  \* history: job ids of the records removed after a submit
    records_created,            \* history: id -> completed-job records created
    uploaded_unscreened,        \* history: an upload was issued for an unscreened record
    last_model_state,           \* history: pid -> load state of its last dispatched
                                \*          ModelStateChange, "NONE" before the first
    last_pop_outcome,           \* history: outcome of the last answered job pop request,
                                \*          "NONE" before the first
    pop_gap,                    \* history: while a job pop request is awaited, the region
                                \*          of the time since the request before it; else 0
    upload_status,              \* history: status code of the last upload, 0 when none
                                \*          was made since the last submit response
    locks_held                  \* the locks the process-control loop holds, in the
                                \*          order of their acquisition

vars == <<max_safety_processes, max_inference_processes,
          max_concurrent_inference_processes, queue_size,
          process_map, horde_model_map, job_deque, jobs_in_progress,
          jobs_pending_safety_check, jobs_being_safety_checked, completed_jobs,
          total_num_completed_jobs, process_message_queue, pipes,
          testing_jobs_added, job_pop_frequency, elapsed_since_pop,
          pc, pop_pc, submit_pc, child,
          popped_ids, left_ids, submitted, records_created, uploaded_unscreened,
          last_model_state, last_pop_outcome, pop_gap, upload_status, locks_held>>

cfgVars == <<max_safety_processes, max_inference_processes,
            max_concurrent_inference_processes, queue_size>>
registryVars == <<process_map, horde_model_map>>
pipelineVars == <<job_deque, jobs_in_progress, jobs_pending_safety_check,
                  jobs_being_safety_checked, completed_jobs,
                  total_num_completed_jobs>>
popVars == <<testing_jobs_added, job_pop_frequency, elapsed_since_pop, pop_pc>>
histVars == <<popped_ids, left_ids, submitted, records_created, uploaded_unscreened,
              last_model_state, last_pop_outcome, pop_gap, upload_status>>

(* --------------------------- helpers ---------------------------------- *)
Pids == DOMAIN process_map


RECURSIVE SumRam(_, _)
SumRam(pm, n) == IF n = 0 THEN 0 ELSE pm[n - 1].ram + SumRam(pm, n - 1)

\* First element of the pid set P (dict iteration order is insertion order,
\* and pids are assigned in increasing order), NoPid when P is empty.
FirstPid(P) == IF P = {} THEN NoPid ELSE CHOOSE p \in P : \A q \in P : p <= q

\* variant: nothing is removed
RemoveNothing(s, x) == s

\* Remove the first element of s equal to x (list.remove).
RemoveFirst(s, x) ==
    IF \E i \in DOMAIN s : s[i] = x
    THEN LET k == CHOOSE i \in DOMAIN s : s[i] = x /\ \A j \in 1..(i - 1) : s[j] # x
         IN  SubSeq(s, 1, k - 1) \o SubSeq(s, k + 1, Len(s))
    ELSE s

(* ------------------- messages.py (not in src/) ------------------------ *)
can_accept_job(state) == state \in {"WAITING_FOR_JOB", "PRELOADED_MODEL"}

is_loaded(load_state) == load_state \in {"LOADED_IN_RAM", "LOADED_IN_VRAM"}

\* report messages (child -> orchestrator); every message has every field
Report(type, pid) ==
    [type |-> type, pid |-> pid, pstate |-> "NONE", model |-> NoModel,
     mstate |-> "NONE", ram |-> 0, job |-> NoJob, images_none |-> FALSE,
     images |-> <<>>, gstate |-> "NONE", evals |-> <<>>]
ProcessStateChange(pid, s) == [Report("ProcessStateChange", pid) EXCEPT !.pstate = s]
ModelStateChange(pid, m, s) ==
    [Report("ModelStateChange", pid) EXCEPT !.model = m, !.mstate = s]
ProcessMemory(pid, r) == [Report("ProcessMemory", pid) EXCEPT !.ram = r]
InferenceResult(pid, job, none, imgs) ==
    [Report("InferenceResult", pid) EXCEPT !.job = job, !.images_none = none,
                                           !.images = imgs, !.gstate = "ok"]
SafetyResult(pid, job, evs) ==
    [Report("SafetyResult", pid) EXCEPT !.job = job, !.evals = evs]

\* control messages (orchestrator -> child)
Control(flag, m, job, imgs) == [flag |-> flag, model |-> m, job |-> job, images |-> imgs]

(* ---------------------- HordeProcessInfo ------------------------------ *)
is_process_busy(info) == ~can_accept_job(info.state)

(* ------------------------ HordeModelMap ------------------------------- *)
\* update_entry is always called with a load state and a process id
HordeModelMap_update_entry(mm, name, load_state, pid) ==
    [mm EXCEPT ![name] = [state |-> load_state, pid |-> pid]]

is_model_loaded(mm, name) == mm[name].state # "ABSENT" /\ is_loaded(mm[name].state)

is_model_loading(mm, name) == mm[name].state = "LOADING"

(* -------------------------- ProcessMap -------------------------------- *)
\* An argument that is None leaves the field alone: "NONE", NoModel and -1
\* stand for None.  Passing loaded_horde_model_name=None therefore does
\* not clear the field.
ProcessMap_update_entry(pm, pid, last_process_state, loaded_horde_model_name, ram_usage_bytes) ==
    [pm EXCEPT ![pid] =
        [kind  |-> @.kind,
         state |-> IF last_process_state # "NONE" THEN last_process_state ELSE @.state,
         model |-> IF loaded_horde_model_name # NoModel
                   THEN loaded_horde_model_name ELSE @.model,
         ram   |-> IF ram_usage_bytes # -1 THEN ram_usage_bytes ELSE @.ram]]

num_inference_processes(pm) ==
    Cardinality({p \in DOMAIN pm : pm[p].kind = "INFERENCE"})

num_safety_processes(pm) ==
    Cardinality({p \in DOMAIN pm : pm[p].kind = "SAFETY"})

num_available_inference_processes(pm) ==
    Cardinality({p \in DOMAIN pm : pm[p].kind = "INFERENCE" /\ ~is_process_busy(pm[p])})

\* variant: the process type is not tested
get_first_available_process(pm) ==
    FirstPid({p \in DOMAIN pm : can_accept_job(pm[p].state)})

get_first_available_inference_process(pm) ==
    FirstPid({p \in DOMAIN pm : pm[p].kind = "INFERENCE" /\ can_accept_job(pm[p].state)})

\* variant: the state of the process is not tested
get_first_safety_process(pm) ==
    FirstPid({p \in DOMAIN pm : pm[p].kind = "SAFETY"})

get_first_available_safety_process(pm) ==
    FirstPid({p \in DOMAIN pm : pm[p].kind = "SAFETY" /\ can_accept_job(pm[p].state)})

get_process_by_horde_model_name(pm, name) ==
    FirstPid({p \in DOMAIN pm : pm[p].model = name})

(* ------------------ HordeWorkerProcessManager ------------------------- *)
target_ram_bytes_used == total_ram_bytes - target_ram_overhead_bytes

get_process_total_ram_usage(pm) == SumRam(pm, Cardinality(DOMAIN pm))

is_time_for_shutdown ==
    /\ Len(jobs_in_progress) = 0
    /\ Len(job_deque) = 0
    /\ \A p \in Pids : ~is_process_busy(process_map[p])
    /\ \A p \in Pids : process_map[p].state = "PROCESS_ENDED"

is_free_inference_process_available ==
    num_available_inference_processes(process_map) > 0

NewProcess(kind) == [kind |-> kind, state |-> "PROCESS_STARTING", model |-> NoModel, ram |-> 0]
NewChild == [phase |-> "new", model |-> NoModel, vram |-> FALSE, cur |-> NoModel,
             job |-> NoJob, images |-> <<>>]

\* The state after __init__ (lines 336-421) for a configuration with ns
\* safety processes, ni inference processes, at most nc concurrent jobs and
\* a queue_size of qs.
InitQueue(ns, ni, nc, qs) ==
    /\ max_safety_processes = ns
    /\ max_inference_processes = ni
    /\ max_concurrent_inference_processes = nc
    /\ queue_size = qs
    /\ process_map = <<>>
    /\ horde_model_map = [m \in Models |-> [state |-> "ABSENT", pid |-> NoPid]]
    /\ job_deque = <<>>
    /\ jobs_in_progress = <<>>
    /\ jobs_pending_safety_check = <<>>
    /\ jobs_being_safety_checked = <<>>
    /\ completed_jobs = <<>>
    /\ total_num_completed_jobs = 0
    /\ process_message_queue = <<>>
    /\ pipes = <<>>
    /\ testing_jobs_added = 0
    /\ job_pop_frequency = default_job_pop_frequency
    /\ elapsed_since_pop = error_job_pop_frequency
    /\ pc = "start"
    /\ pop_pc = "idle"
    /\ submit_pc = "idle"
    /\ child = <<>>
    /\ popped_ids = <<>>
    /\ left_ids = <<>>
    /\ submitted = <<>>
    /\ records_created = [i \in 1..MaxJobs |-> 0]
    /\ uploaded_unscreened = FALSE
    /\ last_model_state = <<>>
    /\ last_pop_outcome = "NONE"
    /\ pop_gap = 0
    /\ upload_status = 0
    /\ locks_held = <<>>

InitConfig(ns, ni, nc) == InitQueue(ns, ni, nc, default_queue_size)

\* the default number of safety processes (line 344)
InitWith(ni, nc) == InitConfig(1, ni, nc)

\* one inference process
Init == \E nc \in 1..MaxConcurrent : InitWith(1, nc)

\* a fleet of inference processes running jobs concurrently
InitFleet == InitWith(FleetSize, MaxConcurrent)

DispatchLocksSafetyFirst == <<"safety", "deque", "completed">>

\* variant: the deque lock, which is not reentrant, is entered a second time
DispatchLocksReentrant == <<"deque", "safety", "deque">>

\* line 1188: _job_deque_lock, _jobs_safety_check_lock, _completed_jobs_lock,
\* entered from left to right
DispatchLocks == <<"deque", "safety", "completed">>

\* line 1192: _jobs_safety_check_lock
SafetyLocks == <<"safety">>

\* start_safety_processes then start_inference_processes (lines 1179-1180):
\* pids are len(_process_map) at each spawn, the safety workers first.
StartProcesses ==
    /\ pc = "start"
    /\ LET ns == max_safety_processes - num_safety_processes(process_map)
           ni == max_inference_processes - num_inference_processes(process_map)
           n  == ns + ni
       IN  /\ process_map' = [p \in 0..(n - 1) |->
                                 IF p < ns THEN NewProcess("SAFETY") ELSE NewProcess("INFERENCE")]
           /\ pipes' = [p \in 0..(n - 1) |-> <<>>]
           /\ child' = [p \in 0..(n - 1) |-> NewChild]
           /\ process_message_queue' = [p \in 0..(n - 1) |-> <<>>]
           /\ last_model_state' = [p \in 0..(n - 1) |-> "NONE"]
    /\ pc' = "dispatch"
    /\ locks_held' = DispatchLocks
    /\ UNCHANGED <<cfgVars, horde_model_map, pipelineVars, popVars, submit_pc,
                   popped_ids, left_ids, submitted, records_created, uploaded_unscreened,
                   last_pop_outcome, pop_gap, upload_status>>

(* ---------- receive_and_handle_process_messages (589-715) ------------- *)
\* line 591: _process_message_queue.empty()
QueueEmpty == \A p \in DOMAIN process_message_queue : process_message_queue[p] = <<>>

CompletedJobInfo(job, imgs, gstate) ==
    [job |-> job, images |-> imgs, state |-> gstate, censored |-> "absent"]

\* lines 605-613
HandleProcessStateChange(msg) ==
    /\ process_map' = ProcessMap_update_entry(process_map, msg.pid, msg.pstate, NoModel, -1)
    /\ pc' = pc
    /\ UNCHANGED <<horde_model_map, pipelineVars, histVars>>

\* lines 615-643: the ON_DISK branch passes loaded_horde_model_name=None
HandleModelStateChange(msg) ==
    /\ horde_model_map' =
           HordeModelMap_update_entry(horde_model_map, msg.model, msg.mstate, msg.pid)
    /\ process_map' =
           IF msg.mstate \in {"LOADED_IN_VRAM", "LOADED_IN_RAM"}
           THEN ProcessMap_update_entry(process_map, msg.pid, "NONE", msg.model, -1)
           ELSE IF msg.mstate = "ON_DISK"
                THEN ProcessMap_update_entry(process_map, msg.pid, "NONE", NoModel, -1)
                ELSE process_map
    /\ last_model_state' = [last_model_state EXCEPT ![msg.pid] = msg.mstate]
    /\ pc' = pc
    /\ UNCHANGED <<pipelineVars, popped_ids, left_ids, submitted, records_created,
                   uploaded_unscreened, last_pop_outcome, pop_gap, upload_status>>

\* lines 645-651
HandleProcessMemory(msg) ==
    /\ process_map' = ProcessMap_update_entry(process_map, msg.pid, "NONE", NoModel, msg.ram)
    /\ pc' = pc
    /\ UNCHANGED <<horde_model_map, pipelineVars, histVars>>

\* variant: deque.pop(), the job removed is the newest one
popright(dq) == [job |-> dq[Len(dq)], rest |-> SubSeq(dq, 1, Len(dq) - 1)]

\* line 670: deque.popleft() of a non-empty deque, the job removed and the rest
popleft(dq) == [job |-> Head(dq), rest |-> Tail(dq)]

\* line 661: the jobs in progress without those whose id is the result's
RemoveById(jobs, id) == SelectSeq(jobs, LAMBDA j : j.id # id)

\* lines 653-680: a result without images is skipped; popleft on an empty
\* deque raises IndexError out of the process-control loop
HandleInferenceResult(msg) ==
    IF msg.images_none
    THEN /\ pc' = pc
         /\ UNCHANGED <<registryVars, pipelineVars, histVars>>
    ELSE /\ jobs_in_progress' = RemoveById(jobs_in_progress, msg.job.id)
         /\ IF Len(job_deque) = 0
            THEN /\ pc' = "crashed"
                 /\ UNCHANGED <<job_deque, total_num_completed_jobs,
                                jobs_pending_safety_check, histVars>>
            ELSE /\ pc' = pc
                 /\ job_deque' = popleft(job_deque).rest
                 /\ left_ids' = Append(left_ids, popleft(job_deque).job.id)
                 /\ total_num_completed_jobs' = total_num_completed_jobs + 1
                 /\ jobs_pending_safety_check' =
                        Append(jobs_pending_safety_check,
                               CompletedJobInfo(msg.job, msg.images, msg.gstate))
                 /\ records_created' =
                        [records_created EXCEPT ![msg.job.id] = @ + 1]
                 /\ UNCHANGED <<popped_ids, submitted, uploaded_unscreened, last_model_state,
                                last_pop_outcome, pop_gap, upload_status>>
         /\ UNCHANGED <<registryVars, jobs_being_safety_checked, completed_jobs>>

\* lines 696-702: images replaced, and the censored / csam counts; an
\* evaluation counts as csam only inside the replacement branch
ReplacedImages(imgs, evs) ==
    [i \in DOMAIN imgs |->
        IF evs[i].replacement # "NONE" THEN evs[i].replacement ELSE imgs[i]]
NumCensored(imgs, evs) ==
    Cardinality({i \in DOMAIN imgs : evs[i].replacement # "NONE"})
NumCsam(imgs, evs) ==
    Cardinality({i \in DOMAIN imgs : evs[i].replacement # "NONE" /\ evs[i].is_csam})

\* variant: the else branch of lines 712-713 is missing
SafetyVerdictNoElse(rec, evs) ==
    LET nc == NumCensored(rec.images, evs)
        ns == NumCsam(rec.images, evs)
    IN  [job      |-> rec.job,
         images   |-> ReplacedImages(rec.images, evs),
         state    |-> IF nc > 0 THEN (IF ns > 0 THEN "csam" ELSE "censored") ELSE rec.state,
         censored |-> IF nc > 0 THEN "true" ELSE rec.censored]

\* lines 706-713
SafetyVerdict(rec, evs) ==
    LET nc == NumCensored(rec.images, evs)
        ns == NumCsam(rec.images, evs)
    IN  [job      |-> rec.job,
         images   |-> ReplacedImages(rec.images, evs),
         state    |-> IF nc > 0 THEN (IF ns > 0 THEN "csam" ELSE "censored") ELSE rec.state,
         censored |-> IF nc > 0 THEN "true" ELSE "false"]

\* lines 681-715: no record with the job id raises ValueError; fewer
\* evaluations than images raises IndexError after the record was popped
HandleSafetyResult(msg) ==
    LET hits == {i \in DOMAIN jobs_being_safety_checked :
                    jobs_being_safety_checked[i].job.id = msg.job.id}
    IN  IF hits = {}
        THEN /\ pc' = "crashed"
             /\ UNCHANGED <<registryVars, pipelineVars, histVars>>
        ELSE LET k   == CHOOSE i \in hits : \A j \in hits : i <= j
                 rec == jobs_being_safety_checked[k]
             IN  /\ jobs_being_safety_checked' =
                        SubSeq(jobs_being_safety_checked, 1, k - 1)
                        \o SubSeq(jobs_being_safety_checked, k + 1,
                                  Len(jobs_being_safety_checked))
                 /\ IF Len(msg.evals) < Len(rec.images)
                    THEN /\ pc' = "crashed"
                         /\ UNCHANGED completed_jobs
                    ELSE /\ pc' = pc
                         /\ completed_jobs' =
                                Append(completed_jobs, SafetyVerdict(rec, msg.evals))
                 /\ UNCHANGED <<registryVars, job_deque, jobs_in_progress,
                                jobs_pending_safety_check, total_num_completed_jobs,
                                histVars>>

AnyProcess(pm, pid) == TRUE

\* line 602
KnownProcess(pm, pid) == pid \in DOMAIN pm

\* One iteration of the while loop of lines 591-715: take the next message
\* and handle it.  A message from an unknown process raises ValueError.
ReceiveAndHandle(sender) ==
    /\ pc = "dispatch"
    /\ process_message_queue[sender] # <<>>
    /\ LET msg == Head(process_message_queue[sender])
       IN  /\ process_message_queue' = [process_message_queue EXCEPT ![sender] = Tail(@)]
           /\ IF ~KnownProcess(process_map, msg.pid)
              THEN /\ pc' = "crashed"
                   /\ UNCHANGED <<registryVars, pipelineVars, histVars>>
              ELSE CASE msg.type = "ProcessStateChange" -> HandleProcessStateChange(msg)
                     [] msg.type = "ModelStateChange"   -> HandleModelStateChange(msg)
                     [] msg.type = "ProcessMemory"      -> HandleProcessMemory(msg)
                     [] msg.type = "InferenceResult"    -> HandleInferenceResult(msg)
                     [] msg.type = "SafetyResult"       -> HandleSafetyResult(msg)
    /\ locks_held' = IF pc' = "crashed" THEN <<>> ELSE locks_held
    /\ UNCHANGED <<cfgVars, pipes, popVars, submit_pc, child>>

Send(pp, pid, msg) == [pp EXCEPT ![pid] = Append(@, msg)]

\* The dispatcher found the queue empty and returned: the async with of line
\* 1188 is left, and line 1192 takes the safety lock when there are jobs
\* pending a safety check.
EndDispatch ==
    /\ pc = "dispatch"
    /\ QueueEmpty
    /\ pc' = "safety"
    /\ locks_held' = IF Len(jobs_pending_safety_check) > 0 THEN SafetyLocks ELSE <<>>
    /\ UNCHANGED <<cfgVars, registryVars, pipelineVars, process_message_queue, pipes,
                   popVars, submit_pc, child, histVars>>

(* ------------------- start_evaluate_safety (898-941) ------------------ *)
\* Called from the loop only when jobs_pending_safety_check is non-empty
\* (line 1191).  More than one image raises NotImplementedError.
StartEvaluateSafety ==
    /\ pc = "safety"
    /\ locks_held' = <<>>
    /\ LET safety_process == get_first_available_safety_process(process_map)
           rec == jobs_pending_safety_check[1]
       IN  IF Len(jobs_pending_safety_check) = 0 \/ safety_process = NoPid
           THEN /\ pc' = "shutdown_check"
                /\ UNCHANGED <<jobs_pending_safety_check, jobs_being_safety_checked, pipes>>
           ELSE IF Len(rec.images) > 1
                THEN /\ pc' = "crashed"
                     /\ UNCHANGED <<jobs_pending_safety_check,
                                    jobs_being_safety_checked, pipes>>
                ELSE /\ pc' = "shutdown_check"
                     /\ jobs_pending_safety_check' =
                            RemoveFirst(jobs_pending_safety_check, rec)
                     /\ jobs_being_safety_checked' =
                            Append(jobs_being_safety_checked, rec)
                     /\ pipes' = Send(pipes, safety_process,
                                      Control("EVALUATE_SAFETY", rec.job.model,
                                              rec.job, rec.images))
    /\ UNCHANGED <<cfgVars, registryVars, job_deque, jobs_in_progress, completed_jobs,
                   total_num_completed_jobs, process_message_queue, popVars,
                   submit_pc, child, histVars>>

(* --------------------- lines 1195-1198 of the loop -------------------- *)
\* variant: the deque is not looked at
SchedulerRunsOnEmptyDeque == is_free_inference_process_available

\* line 1198
SchedulerRuns == is_free_inference_process_available /\ Len(job_deque) > 0

ShutdownCheck ==
    /\ pc = "shutdown_check"
    /\ pc' = IF is_time_for_shutdown THEN "done"
             ELSE IF SchedulerRuns THEN "preload" ELSE "sleep"
    /\ UNCHANGED <<cfgVars, locks_held, registryVars, pipelineVars, process_message_queue, pipes,
                   popVars, submit_pc, child, histVars>>

(* ----------------------- preload_models (717-767) --------------------- *)
\* variant: only a loaded model is skipped, a loading one is not
IsLoadedOnly(mm, m) == is_model_loaded(mm, m)

IsLoadedOrLoading(mm, m) == is_model_loaded(mm, m) \/ is_model_loading(mm, m)

\* Index of the job at which the scan of lines 724-767 stops skipping: the
\* first job whose model is neither loaded nor loading; 0 when there is none.
FirstUnloadedJob(mm, dq) ==
    LET cand == {i \in DOMAIN dq : ~IsLoadedOrLoading(mm, dq[i].model)}
    IN  IF cand = {} THEN 0 ELSE CHOOSE i \in cand : \A j \in cand : i <= j

\* The preload that one call decides: [pid, model], pid = NoPid for none.
\* num_already_loaded_model is the number of jobs skipped before the job.
PreloadDecision(pm, mm, dq) ==
    LET i == FirstUnloadedJob(mm, dq)
        num_already_loaded_model == i - 1
        available_process == get_first_available_inference_process(pm)
    IN  IF i = 0 THEN [pid |-> NoPid, model |-> NoModel]
        ELSE IF num_already_loaded_model >= num_inference_processes(pm)
             THEN [pid |-> NoPid, model |-> NoModel]
             ELSE IF available_process = NoPid
                  THEN [pid |-> NoPid, model |-> NoModel]
                  ELSE [pid |-> available_process, model |-> dq[i].model]

PreloadModels ==
    /\ pc = "preload"
    /\ pc' = "start_inference"
    /\ LET d == PreloadDecision(process_map, horde_model_map, job_deque)
       IN  IF d.pid = NoPid
           THEN UNCHANGED <<registryVars, pipes>>
           ELSE /\ pipes' = Send(pipes, d.pid, Control("PRELOAD_MODEL", d.model, NoJob, <<>>))
                /\ horde_model_map' =
                       HordeModelMap_update_entry(horde_model_map, d.model, "LOADING", d.pid)
                /\ process_map' =
                       ProcessMap_update_entry(process_map, d.pid, "NONE", d.model, -1)
    /\ UNCHANGED <<cfgVars, locks_held, pipelineVars, process_message_queue, popVars, submit_pc,
                   child, histVars>>

(* ----------------------- start_inference (769-829) -------------------- *)
InProgress(job) == \E i \in DOMAIN jobs_in_progress : jobs_in_progress[i] = job

\* lines 775-781: index of the first deque job not in jobs_in_progress, 0 if none
NextJobIndex ==
    LET cand == {i \in DOMAIN job_deque : ~InProgress(job_deque[i])}
    IN  IF cand = {} THEN 0 ELSE CHOOSE i \in cand : \A j \in cand : i <= j

\* variant: the bound of line 772 compared with <= instead of <
InferenceSlotFreeOffByOne == Len(jobs_in_progress) <= max_concurrent_inference_processes

\* line 772
InferenceSlotFree == Len(jobs_in_progress) < max_concurrent_inference_processes

\* lines 804-820: the other processes that are not busy and have a model
UnloadFromVramTargets(owner) ==
    {p \in Pids : p # owner /\ ~is_process_busy(process_map[p])
                            /\ process_map[p].model # NoModel}

\* variant: the job started is taken out of the deque
DequeAfterStartRemoving(dq, next_job) == RemoveFirst(dq, next_job)

\* lines 822-829: the job started is appended to jobs_in_progress; nothing
\* is removed from the deque
DequeAfterStart(dq, next_job) == dq

StartInference ==
    /\ pc = "start_inference"
    /\ pc' = "unload"
    /\ LET i == NextJobIndex
           next_job == job_deque[i]
           process_with_model ==
               get_process_by_horde_model_name(process_map, next_job.model)
       IN  IF /\ InferenceSlotFree
              /\ i # 0
              /\ is_model_loaded(horde_model_map, next_job.model)
              /\ process_with_model # NoPid
              /\ can_accept_job(process_map[process_with_model].state)
           THEN /\ jobs_in_progress' = Append(jobs_in_progress, next_job)
                /\ job_deque' = DequeAfterStart(job_deque, next_job)
                /\ pipes' =
                     [p \in Pids |->
                        IF p = process_with_model
                        THEN Append(pipes[p],
                                    Control("START_INFERENCE", next_job.model, next_job, <<>>))
                        ELSE IF p \in UnloadFromVramTargets(process_with_model)
                             THEN Append(pipes[p],
                                         Control("UNLOAD_MODELS_FROM_VRAM",
                                                 process_map[p].model, NoJob, <<>>))
                             ELSE pipes[p]]
           ELSE UNCHANGED <<jobs_in_progress, job_deque, pipes>>
    /\ UNCHANGED <<cfgVars, locks_held, registryVars, jobs_pending_safety_check,
                   jobs_being_safety_checked, completed_jobs, total_num_completed_jobs,
                   process_message_queue, popVars, submit_pc, child, histVars>>

(* ---------------- unload_from_ram / unload_models (831-896) ----------- *)
\* lines 876-890: the first max_concurrent_inference_processes distinct
\* models of the deque, scanning from the left
RECURSIVE NextNModels(_, _, _, _)
NextNModels(dq, n, jobs_traversed, acc) ==
    IF Cardinality(acc) >= n \/ jobs_traversed >= Len(dq) THEN acc
    ELSE NextNModels(dq, n, jobs_traversed + 1, acc \cup {dq[jobs_traversed + 1].model})

\* variant: the entry of the model is dropped from the model map
unload_from_ram_dropping(st, pid) ==
    LET m == st.pm[pid].model
    IN  IF m = NoModel \/ ~is_model_loaded(st.mm, m)
        THEN [st EXCEPT !.ok = FALSE]
        ELSE [pm |-> ProcessMap_update_entry(st.pm, pid, "NONE", NoModel, -1),
              mm |-> [st.mm EXCEPT ![m] = [state |-> "ABSENT", pid |-> NoPid]],
              pp |-> Send(st.pp, pid, Control("UNLOAD_MODELS_FROM_RAM", m, NoJob, <<>>)),
              ok |-> TRUE]

\* unload_from_ram on the state st = [pm, mm, pp, ok]: raises (ok = FALSE)
\* when the process's model is not loaded in the model map
unload_from_ram(st, pid) ==
    LET m == st.pm[pid].model
    IN  IF m = NoModel \/ ~is_model_loaded(st.mm, m)
        THEN [st EXCEPT !.ok = FALSE]
        ELSE [pm |-> ProcessMap_update_entry(st.pm, pid, "NONE", NoModel, -1),
              mm |-> HordeModelMap_update_entry(st.mm, m, "ON_DISK", pid),
              pp |-> Send(st.pp, pid, Control("UNLOAD_MODELS_FROM_RAM", m, NoJob, <<>>)),
              ok |-> TRUE]

\* variant: eviction starts when the RAM in use reaches the target
EvictionDueAtTarget(st, pid, dq, n) ==
    /\ ~is_process_busy(st.pm[pid])
    /\ st.pm[pid].model # NoModel
    /\ ~is_model_loading(st.mm, st.pm[pid].model)
    /\ st.pm[pid].model \notin NextNModels(dq, n, 0, {})
    /\ get_process_total_ram_usage(st.pm) >= target_ram_bytes_used

\* lines 867-895: the conditions under which process pid is evicted
EvictionDue(st, pid, dq, n) ==
    /\ ~is_process_busy(st.pm[pid])
    /\ st.pm[pid].model # NoModel
    /\ ~is_model_loading(st.mm, st.pm[pid].model)
    /\ st.pm[pid].model \notin NextNModels(dq, n, 0, {})
    /\ get_process_total_ram_usage(st.pm) > target_ram_bytes_used

\* the loop of line 866 over the processes pid, pid + 1, ..., last - 1
RECURSIVE unload_models(_, _, _, _, _)
unload_models(st, pid, last, dq, n) ==
    IF pid >= last \/ ~st.ok THEN st
    ELSE unload_models(IF EvictionDue(st, pid, dq, n) THEN unload_from_ram(st, pid) ELSE st,
                       pid + 1, last, dq, n)

UnloadModels ==
    /\ pc = "unload"
    /\ LET st == unload_models([pm |-> process_map, mm |-> horde_model_map,
                                pp |-> pipes, ok |-> TRUE],
                               0, Cardinality(Pids), job_deque,
                               max_concurrent_inference_processes)
       IN  /\ process_map' = st.pm
           /\ horde_model_map' = st.mm
           /\ pipes' = st.pp
           /\ pc' = IF st.ok THEN "sleep" ELSE "crashed"
    /\ UNCHANGED <<cfgVars, locks_held, pipelineVars, process_message_queue, popVars, submit_pc,
                   child, histVars>>

\* line 1203 and the start of the next iteration.  The pipes are unbounded
\* in the model; the next tick waits until no child is more than MaxPipe
\* control messages behind.
Wake ==
    /\ pc = "sleep"
    /\ \A p \in Pids : Len(pipes[p]) <= MaxPipe
    /\ pc' = "dispatch"
    /\ locks_held' = DispatchLocks
    /\ UNCHANGED <<cfgVars, registryVars, pipelineVars, process_message_queue, pipes,
                   popVars, submit_pc, child, histVars>>

(* ------------------------- API loop (1144-1176) ----------------------- *)
\* The API loop runs while the process-control loop is suspended (in its sleep
\* or at an acquire of line 1188) or ended.
ApiMayRun == pc \in {"sleep", "done", "locking"}

TimeRegions == {0, default_job_pop_frequency, error_job_pop_frequency}

\* variant: the deque is full one job later
JobPopReadsClockLate ==
    /\ ~(Len(job_deque) > queue_size + 1)
    /\ ~(testing_jobs_added >= MaxJobs)

\* lines 1042-1046: api_job_pop gets as far as reading the clock
JobPopReadsClock ==
    /\ ~(Len(job_deque) >= queue_size + 1)
    /\ ~(testing_jobs_added >= MaxJobs)

JobPopDueByDefault(elapsed) == ~(elapsed < default_job_pop_frequency)

\* line 1048, for the value elapsed of time.time() - _last_job_pop_time
JobPopDue(elapsed) == ~(elapsed < job_pop_frequency)

\* api_submit_job up to the upload (lines 959-983): TRUE when the head of
\* completed_jobs passes the checks and the upload is issued
UploadDue ==
    /\ Len(completed_jobs) # 0
    /\ ~(Len(completed_jobs[1].images) > 1)
    /\ completed_jobs[1].censored # "absent"

\* line 982 passed (or not) for the record whose upload is issued
Unscreened(rec) == rec.censored = "absent"

UploadRejected(status_code) == status_code # UPLOAD_OK

UploadAlwaysSucceeded(status_code) == TRUE

\* line 1003
UploadSucceeded(status_code) == status_code = UPLOAD_OK

\* One iteration of the loop of line 1155: gather starts api_job_pop and
\* api_submit_job, which run one after the other up to their first await
\* (the upload is a blocking requests.put).  statuses: the status codes the
\* storage may answer the upload with.
ApiCallLoopWith(statuses) ==
    /\ ApiMayRun
    /\ pop_pc = "idle" /\ submit_pc = "idle"
    /\ IF JobPopReadsClock
       THEN \E elapsed \in {e \in TimeRegions : e >= elapsed_since_pop} :
               IF JobPopDue(elapsed)
               THEN /\ elapsed_since_pop' = 0
                    /\ pop_pc' = "awaiting"
                    /\ pop_gap' = elapsed
               ELSE /\ elapsed_since_pop' = elapsed
                    /\ pop_pc' = "idle"
                    /\ UNCHANGED pop_gap
       ELSE UNCHANGED <<elapsed_since_pop, pop_pc, pop_gap>>
    /\ IF UploadDue
       THEN \E status_code \in statuses :
               /\ uploaded_unscreened' =
                      (uploaded_unscreened \/ Unscreened(completed_jobs[1]))
               /\ submit_pc' = IF UploadSucceeded(status_code) THEN "awaiting" ELSE "idle"
               /\ upload_status' = status_code
       ELSE UNCHANGED <<uploaded_unscreened, submit_pc, upload_status>>
    /\ JobPopReadsClock \/ UploadDue
    /\ UNCHANGED <<cfgVars, locks_held, registryVars, pipelineVars, process_message_queue, pipes,
                   testing_jobs_added, job_pop_frequency, pc, child,
                   popped_ids, left_ids, submitted, records_created, last_model_state,
                   last_pop_outcome>>

ApiCallLoop == ApiCallLoopWith(UploadStatuses)

PopOutcomes == {"error", "no_job", "job"}

\* api_job_pop after its await (lines 1084-1105); outcomes: the answers the
\* API may give to the request
ApiJobPopResponseWith(outcomes) ==
    /\ ApiMayRun
    /\ pop_pc = "awaiting"
    /\ pop_pc' = "idle"
    /\ pop_gap' = 0
    /\ \/ /\ "error" \in outcomes                           \* error response or exception
          /\ job_pop_frequency' = error_job_pop_frequency
          /\ last_pop_outcome' = "error"
          /\ UNCHANGED <<job_deque, testing_jobs_added, popped_ids>>
       \/ /\ "no_job" \in outcomes                          \* no job available
          /\ job_pop_frequency' = default_job_pop_frequency
          /\ last_pop_outcome' = "no_job"
          /\ UNCHANGED <<job_deque, testing_jobs_added, popped_ids>>
       \/ \E m \in Models :
             LET job == [id |-> testing_jobs_added + 1, model |-> m]
             IN  /\ "job" \in outcomes
                 /\ job_pop_frequency' = default_job_pop_frequency
                 /\ last_pop_outcome' = "job"
                 /\ job_deque' = Append(job_deque, job)
                 /\ testing_jobs_added' = testing_jobs_added + 1
                 /\ popped_ids' = Append(popped_ids, job.id)
    /\ UNCHANGED <<cfgVars, locks_held, registryVars, jobs_in_progress, jobs_pending_safety_check,
                   jobs_being_safety_checked, completed_jobs, total_num_completed_jobs,
                   process_message_queue, pipes, elapsed_since_pop, pc, submit_pc,
                   child, left_ids, submitted, records_created, uploaded_unscreened,
                   last_model_state, upload_status>>

ApiJobPopResponse == ApiJobPopResponseWith(PopOutcomes)

\* api_submit_job after its await (lines 1016-1029); completed_job_info is
\* still the head of completed_jobs, which only this coroutine shortens.
\* oks: whether the submit may succeed, fail (error response or exception)
SubmitResponseWith(oks) ==
    /\ ApiMayRun
    /\ submit_pc = "awaiting"
    /\ submit_pc' = "idle"
    /\ upload_status' = 0
    /\ \E ok \in oks :
          IF ok
          THEN /\ completed_jobs' = RemoveFirst(completed_jobs, completed_jobs[1])
               /\ submitted' = Append(submitted, completed_jobs[1].job.id)
          ELSE UNCHANGED <<completed_jobs, submitted>>
    /\ UNCHANGED <<cfgVars, locks_held, registryVars, job_deque, jobs_in_progress,
                   jobs_pending_safety_check, jobs_being_safety_checked,
                   total_num_completed_jobs, process_message_queue, pipes, popVars, pc,
                   child, popped_ids, left_ids, records_created, uploaded_unscreened,
                   last_model_state, last_pop_outcome, pop_gap>>

ApiSubmitResponse == SubmitResponseWith(BOOLEAN)

(* -------------------- the child processes (environment) --------------- *)
ChildMayRun == pc \in {"sleep", "done", "locking"}

\* the per-image evaluations a safety worker may return
Evaluations ==
    {[is_nsfw |-> FALSE, is_csam |-> FALSE, replacement |-> "NONE"],
     [is_nsfw |-> TRUE,  is_csam |-> FALSE, replacement |-> "repl"],
     [is_nsfw |-> FALSE, is_csam |-> TRUE,  replacement |-> "repl"],
     [is_nsfw |-> FALSE, is_csam |-> TRUE,  replacement |-> "NONE"]}

\* The inbound queue is unbounded; a child whose reports would exceed
\* MaxInbound waits for the dispatcher.
Enqueue(p, msgs) ==
    /\ Len(process_message_queue[p]) + Len(msgs) <= MaxInbound
    /\ process_message_queue' = [process_message_queue EXCEPT ![p] = @ \o msgs]

\* the child reports WAITING_FOR_JOB once it is up
ChildStart(p) ==
    /\ ChildMayRun
    /\ child[p].phase = "new"
    /\ child' = [child EXCEPT ![p].phase = "idle"]
    /\ Enqueue(p, <<ProcessStateChange(p, "WAITING_FOR_JOB")>>)
    /\ UNCHANGED <<cfgVars, locks_held, registryVars, pipelineVars, pipes, popVars, submit_pc, pc,
                   histVars>>

\* the child reads the next control message from its pipe
ChildReceive(p) ==
    /\ ChildMayRun
    /\ child[p].phase = "idle"
    /\ pipes[p] # <<>>
    /\ pipes' = [pipes EXCEPT ![p] = Tail(@)]
    /\ LET c == Head(pipes[p])
           old == child[p].model
       IN  CASE c.flag = "PRELOAD_MODEL" ->
                  /\ child' = [child EXCEPT ![p].phase = "preloading", ![p].cur = c.model,
                                            ![p].model = NoModel, ![p].vram = FALSE]
                  /\ Enqueue(p, <<ProcessStateChange(p, "PRELOADING_MODEL")>>
                             \o (IF old \notin {NoModel, c.model}
                                 THEN <<ModelStateChange(p, old, "ON_DISK")>> ELSE <<>>)
                             \o <<ModelStateChange(p, c.model, "LOADING")>>)
             [] c.flag = "START_INFERENCE" ->
                  /\ child' = [child EXCEPT ![p].phase = "inferring", ![p].job = c.job,
                                            ![p].model = c.model, ![p].vram = TRUE]
                  /\ Enqueue(p, <<ProcessStateChange(p, "INFERENCE_STARTING")>>
                             \o (IF old \notin {NoModel, c.model}
                                 THEN <<ModelStateChange(p, old, "ON_DISK")>> ELSE <<>>)
                             \o <<ModelStateChange(p, c.model, "LOADED_IN_VRAM")>>)
             [] c.flag = "UNLOAD_MODELS_FROM_VRAM" ->
                  IF old = c.model /\ child[p].vram
                  THEN /\ child' = [child EXCEPT ![p].vram = FALSE]
                       /\ Enqueue(p, <<ModelStateChange(p, c.model, "LOADED_IN_RAM")>>)
                  ELSE UNCHANGED <<child, process_message_queue>>
             [] c.flag = "UNLOAD_MODELS_FROM_RAM" ->
                  IF old = c.model
                  THEN /\ child' = [child EXCEPT ![p].model = NoModel, ![p].vram = FALSE]
                       /\ Enqueue(p, <<ModelStateChange(p, c.model, "ON_DISK"),
                                    ProcessMemory(p, 0)>>)
                  ELSE UNCHANGED <<child, process_message_queue>>
             [] c.flag = "EVALUATE_SAFETY" ->
                  /\ child' = [child EXCEPT ![p].phase = "evaluating", ![p].job = c.job,
                                            ![p].images = c.images]
                  /\ Enqueue(p, <<ProcessStateChange(p, "EVALUATING_SAFETY")>>)
             [] c.flag = "END_PROCESS" ->
                  /\ child' = [child EXCEPT ![p].phase = "ended"]
                  /\ Enqueue(p, <<ProcessStateChange(p, "PROCESS_ENDED")>>)
    /\ UNCHANGED <<cfgVars, locks_held, registryVars, pipelineVars, popVars, submit_pc, pc, histVars>>

\* the child finishes what it was doing and reports; nones: whether an
\* inference may end without images, evaluations: the evaluations of an image
ChildFinishWith(p, nones, evaluations) ==
    /\ ChildMayRun
    /\ CASE child[p].phase = "preloading" ->
              /\ child' = [child EXCEPT ![p].phase = "idle", ![p].model = child[p].cur,
                                        ![p].cur = NoModel]
              /\ Enqueue(p, <<ModelStateChange(p, child[p].cur, "LOADED_IN_RAM"),
                           ProcessMemory(p, 1),
                           ProcessStateChange(p, "PRELOADED_MODEL")>>)
         [] child[p].phase = "inferring" ->
              /\ child' = [child EXCEPT ![p].phase = "idle", ![p].job = NoJob]
              /\ \E none \in nones :
                    Enqueue(p, <<InferenceResult(p, child[p].job, none,
                                              IF none THEN <<>> ELSE <<"img">>),
                              ProcessStateChange(p, "WAITING_FOR_JOB")>>)
         [] child[p].phase = "evaluating" ->
              /\ child' = [child EXCEPT ![p].phase = "idle", ![p].job = NoJob,
                                        ![p].images = <<>>]
              /\ \E evs \in [DOMAIN child[p].images -> evaluations] :
                    Enqueue(p, <<SafetyResult(p, child[p].job, evs),
                              ProcessStateChange(p, "WAITING_FOR_JOB")>>)
         [] OTHER -> FALSE
    /\ UNCHANGED <<cfgVars, locks_held, registryVars, pipelineVars, pipes, popVars, submit_pc, pc,
                   histVars>>

ChildFinish(p) == ChildFinishWith(p, BOOLEAN, Evaluations)

\* An idle child ends by itself (the process is stopped from outside) and
\* reports PROCESS_ENDED, its last message.
ChildExit(p) ==
    /\ ChildMayRun
    /\ child[p].phase = "idle"
    /\ child' = [child EXCEPT ![p].phase = "ended"]
    /\ Enqueue(p, <<ProcessStateChange(p, "PROCESS_ENDED")>>)
    /\ UNCHANGED <<cfgVars, locks_held, registryVars, pipelineVars, pipes, popVars, submit_pc, pc,
                   histVars>>

\* the reports, one of each kind, of a process with id pid about job and model m
ReportsOf(pid, job, m) ==
    {ProcessStateChange(pid, "WAITING_FOR_JOB"),
     ModelStateChange(pid, m, "LOADED_IN_RAM"),
     ProcessMemory(pid, 1),
     InferenceResult(pid, job, FALSE, <<"img">>),
     SafetyResult(pid, job, <<[is_nsfw |-> FALSE, is_csam |-> FALSE, replacement |-> "NONE"]>>)}

\* A report whose process id is not in the registry arrives on the inbound
\* queue, behind the reports of child p; at most one such report is waiting.
ForeignReport(p) ==
    /\ ChildMayRun
    /\ \A q \in Pids : \A i \in DOMAIN process_message_queue[q] :
          process_message_queue[q][i].pid \in Pids
    /\ \E msg \in ReportsOf(Cardinality(Pids), [id |-> 1, model |-> 1], 1) :
          Enqueue(p, <<msg>>)
    /\ UNCHANGED <<cfgVars, locks_held, registryVars, pipelineVars, pipes, popVars, submit_pc, pc,
                   child, histVars>>

Next ==
    \/ StartProcesses
    \/ \E p \in Pids : ReceiveAndHandle(p)
    \/ EndDispatch
    \/ StartEvaluateSafety
    \/ ShutdownCheck
    \/ PreloadModels
    \/ StartInference
    \/ UnloadModels
    \/ Wake
    \/ ApiCallLoop
    \/ ApiJobPopResponse
    \/ ApiSubmitResponse
    \/ \E p \in Pids : ChildStart(p)
    \/ \E p \in Pids : ChildReceive(p)
    \/ \E p \in Pids : ChildFinish(p)

Spec == Init /\ [][Next]_vars

SpecFleet == InitFleet /\ [][Next]_vars

\* Shutdown: the children may end; the configurations are the one without
\* any child process and the one with a safety and an inference process.
InitShutdown == \E n \in 0..1 : InitConfig(n, n, 1)

NextShutdown == Next \/ \E p \in Pids : ChildExit(p)

SpecShutdown == InitShutdown /\ [][NextShutdown]_vars


\* The happy path: one job is popped; the children answer every control
\* message, an inference returns its image, the safety worker passes every
\* image without a replacement, the upload returns 200 and the submit
\* succeeds.  Both loops are tasks of the event loop and every sleep and
\* every awaited response returns.
CleanEvaluations ==
    {e \in Evaluations : ~e.is_nsfw /\ ~e.is_csam /\ e.replacement = "NONE"}

SingleJobOutcomes ==
    IF testing_jobs_added = 0 THEN PopOutcomes ELSE PopOutcomes \ {"job"}

InitHappy == InitConfig(1, 1, 1)

HappyPids == 0..1

ControlStep ==
    \/ StartProcesses
    \/ \E p \in Pids : ReceiveAndHandle(p)
    \/ EndDispatch
    \/ StartEvaluateSafety
    \/ ShutdownCheck
    \/ PreloadModels
    \/ StartInference
    \/ UnloadModels
    \/ Wake

NextHappy ==
    \/ StartProcesses
    \/ \E p \in Pids : ReceiveAndHandle(p)
    \/ EndDispatch
    \/ StartEvaluateSafety
    \/ ShutdownCheck
    \/ PreloadModels
    \/ StartInference
    \/ UnloadModels
    \/ Wake
    \/ ApiCallLoopWith({UPLOAD_OK})
    \/ ApiJobPopResponseWith(SingleJobOutcomes)
    \/ SubmitResponseWith({TRUE})
    \/ \E p \in Pids : ChildStart(p)
    \/ \E p \in Pids : ChildReceive(p)
    \/ \E p \in Pids : ChildFinishWith(p, {FALSE}, CleanEvaluations)

\* The API loop and the children are modelled as stepping between two ticks,
\* so their steps are enabled again and again rather than continuously: the
\* event loop runs the API task at every sleep of the control task and the
\* children run in parallel, which is strong fairness of these steps.
FairHappy ==
    /\ WF_vars(ControlStep)
    /\ SF_vars(ApiCallLoopWith({UPLOAD_OK}))
    /\ SF_vars(ApiJobPopResponseWith(SingleJobOutcomes))
    /\ SF_vars(SubmitResponseWith({TRUE}))
    /\ \A p \in HappyPids :
          /\ SF_vars(p \in Pids /\ ChildStart(p))
          /\ SF_vars(p \in Pids /\ ChildReceive(p))
          /\ SF_vars(p \in Pids /\ ChildFinishWith(p, {FALSE}, CleanEvaluations))

SpecHappy == InitHappy /\ [][NextHappy]_vars /\ FairHappy

\* Reports of unknown processes: one inference process, a single job, and
\* reports with a process id outside the registry.
NextForeign ==
    \/ StartProcesses
    \/ \E p \in Pids : ReceiveAndHandle(p)
    \/ EndDispatch
    \/ StartEvaluateSafety
    \/ ShutdownCheck
    \/ PreloadModels
    \/ StartInference
    \/ UnloadModels
    \/ Wake
    \/ ApiCallLoop
    \/ ApiJobPopResponseWith(SingleJobOutcomes)
    \/ ApiSubmitResponse
    \/ \E p \in Pids : ChildStart(p)
    \/ \E p \in Pids : ChildReceive(p)
    \/ \E p \in Pids : ChildFinish(p)
    \/ \E p \in Pids : ForeignReport(p)

SpecForeign == InitConfig(1, 1, 1) /\ [][NextForeign]_vars

\* Eviction: two inference processes running one job at a time, so that the
\* RAM in use can exceed the target, and no safety process: the images wait
\* in jobs_pending_safety_check and nothing is submitted.  Two jobs, for
\* different models, are offered and every inference returns its image.
TwoJobOutcomes ==
    IF testing_jobs_added < 2 THEN {"no_job", "job"} ELSE {"no_job"}

\* the jobs offered are for different models: the k-th job for model k
EachJobItsModel ==
    Len(job_deque') > Len(job_deque) =>
        job_deque'[Len(job_deque')].model = job_deque'[Len(job_deque')].id

NextEvict ==
    \/ StartProcesses
    \/ \E p \in Pids : ReceiveAndHandle(p)
    \/ EndDispatch
    \/ StartEvaluateSafety
    \/ ShutdownCheck
    \/ PreloadModels
    \/ StartInference
    \/ UnloadModels
    \/ Wake
    \/ ApiCallLoop
    \/ (ApiJobPopResponseWith(TwoJobOutcomes) /\ EachJobItsModel)
    \/ \E p \in Pids : ChildStart(p)
    \/ \E p \in Pids : ChildReceive(p)
    \/ \E p \in Pids : ChildFinishWith(p, {FALSE}, CleanEvaluations)

SpecEvict == InitConfig(0, 2, 1) /\ [][NextEvict]_vars

(* ---------------- end_inference_processes (552-585) ------------------- *)
\* lines 555-558, for the configured limit the call reads
num_processes_to_end(limit) ==
    IF is_time_for_shutdown
    THEN num_inference_processes(process_map)
    ELSE num_inference_processes(process_map) - limit

\* lines 569-583: each pass of the loop takes the first available inference
\* process and sends it END_PROCESS; update_entry(process_id=...) of line 583
\* passes no field and changes nothing, so every pass finds the same process
EndProcessesSent(pp, pm, k) ==
    LET target == get_first_available_inference_process(pm)
    IN  [pp EXCEPT ![target] = @ \o [i \in 1..k |-> Control("END_PROCESS", NoModel, NoJob, <<>>)]]

\* end_inference_processes is called between two ticks, after
\* max_inference_processes has been set to limit.  Lines 561-566 and 574-578
\* raise ValueError.
EndInferenceProcesses ==
    /\ pc = "sleep"
    /\ \A p \in Pids : Len(pipes[p]) <= MaxPipe
    /\ \E limit \in 0..FleetSize :
          /\ max_inference_processes' = limit
          /\ LET k == num_processes_to_end(limit)
             IN  IF k < 0 \/ (k > 0 /\ get_first_available_inference_process(process_map) = NoPid)
                 THEN pc' = "crashed" /\ pipes' = pipes
                 ELSE pc' = pc /\ pipes' = IF k = 0 THEN pipes
                                           ELSE EndProcessesSent(pipes, process_map, k)
    /\ UNCHANGED <<max_safety_processes, max_concurrent_inference_processes, queue_size,
                   locks_held,
                   registryVars, pipelineVars, process_message_queue, popVars, submit_pc,
                   child, histVars>>

\* A fleet whose size is reduced while it works on one job.
NextEndProcesses ==
    \/ StartProcesses
    \/ \E p \in Pids : ReceiveAndHandle(p)
    \/ EndDispatch
    \/ StartEvaluateSafety
    \/ ShutdownCheck
    \/ PreloadModels
    \/ StartInference
    \/ UnloadModels
    \/ Wake
    \/ ApiCallLoop
    \/ ApiJobPopResponseWith(SingleJobOutcomes)
    \/ \E p \in Pids : ChildStart(p)
    \/ \E p \in Pids : ChildReceive(p)
    \/ \E p \in Pids : ChildFinishWith(p, {FALSE}, CleanEvaluations)
    \/ EndInferenceProcesses

SpecEndProcesses == InitConfig(0, FleetSize, 1) /\ [][NextEndProcesses]_vars

\* Preloading for a deque that is already full: queue_size + 1 jobs were
\* popped while the inference processes were still starting, and no further
\* job is offered.  The processes then come up and the control loop runs.
InitPreload ==
    \E f \in [1..(MaxJobs + 1) -> Models] :
        /\ max_safety_processes = 0
        /\ max_inference_processes = FleetSize
        /\ max_concurrent_inference_processes = 1
        /\ queue_size = MaxJobs
        /\ process_map = [p \in 0..(FleetSize - 1) |-> NewProcess("INFERENCE")]
        /\ horde_model_map = [m \in Models |-> [state |-> "ABSENT", pid |-> NoPid]]
        /\ job_deque = [i \in 1..(MaxJobs + 1) |-> [id |-> i, model |-> f[i]]]
        /\ jobs_in_progress = <<>>
        /\ jobs_pending_safety_check = <<>>
        /\ jobs_being_safety_checked = <<>>
        /\ completed_jobs = <<>>
        /\ total_num_completed_jobs = 0
        /\ process_message_queue = [p \in 0..(FleetSize - 1) |-> <<>>]
        /\ pipes = [p \in 0..(FleetSize - 1) |-> <<>>]
        /\ testing_jobs_added = MaxJobs + 1
        /\ job_pop_frequency = default_job_pop_frequency
        /\ elapsed_since_pop = 0
        /\ pc = "sleep"
        /\ pop_pc = "idle"
        /\ submit_pc = "idle"
        /\ child = [p \in 0..(FleetSize - 1) |-> NewChild]
        /\ popped_ids = [i \in 1..(MaxJobs + 1) |-> i]
        /\ left_ids = <<>>
        /\ submitted = <<>>
        /\ records_created = [i \in 1..(MaxJobs + 1) |-> 0]
        /\ uploaded_unscreened = FALSE
        /\ last_model_state = [p \in 0..(FleetSize - 1) |-> "NONE"]
        /\ last_pop_outcome = "job"
        /\ pop_gap = 0
        /\ upload_status = 0
        /\ locks_held = <<>>

NextPreload ==
    \/ \E p \in Pids : ReceiveAndHandle(p)
    \/ EndDispatch
    \/ StartEvaluateSafety
    \/ ShutdownCheck
    \/ PreloadModels
    \/ StartInference
    \/ UnloadModels
    \/ Wake
    \/ \E p \in Pids : ChildStart(p)
    \/ \E p \in Pids : ChildReceive(p)
    \/ \E p \in Pids : ChildFinishWith(p, {FALSE}, CleanEvaluations)

SpecPreload == InitPreload /\ [][NextPreload]_vars

\* One inference process and a queue_size of 0 or of 1.
InitShortQueue == \E qs \in 0..default_queue_size : InitQueue(1, 1, 1, qs)

SpecShortQueue == InitShortQueue /\ [][Next]_vars

\* The locks at the grain of their acquires.  An "async with" suspends its
\* task when the lock is held, so every acquire is a step of its own at which
\* the other tasks may run; what an "async with" encloses has no await (lines
\* 1189, 1026, 1104-1105) and is one step.  The process-control loop is at
\* pc = "locking" from the return of its sleep to the third acquire of line
\* 1188; api_job_pop and api_submit_job are at "locking" before their acquire
\* and at "locked" between the acquire and the enclosed statements.

\* the locks the API tasks hold
ApiLocksHeld ==
    (IF pop_pc = "locked" THEN {"deque"} ELSE {})
        \cup (IF submit_pc = "locked" THEN {"completed"} ELSE {})

\* asyncio.Lock.locked() is False for the lock l
LockFree(l) ==
    /\ \A i \in 1..Len(locks_held) : locks_held[i] # l
    /\ l \notin ApiLocksHeld

\* line 1203 returns: the loop is about to enter line 1188
WakeToLock ==
    /\ pc = "sleep"
    /\ \A p \in Pids : Len(pipes[p]) <= MaxPipe
    /\ pc' = "locking"
    /\ UNCHANGED <<cfgVars, locks_held, registryVars, pipelineVars, process_message_queue,
                   pipes, popVars, submit_pc, child, histVars>>

\* line 1188: the next of the three locks is acquired, in the written order
AcquireDispatchLock ==
    /\ pc = "locking"
    /\ LET l == DispatchLocks[Len(locks_held) + 1]
       IN  /\ LockFree(l)
           /\ locks_held' = Append(locks_held, l)
    /\ pc' = IF Len(locks_held) + 1 = Len(DispatchLocks) THEN "dispatch" ELSE "locking"
    /\ UNCHANGED <<cfgVars, registryVars, pipelineVars, process_message_queue, pipes,
                   popVars, submit_pc, child, histVars>>

\* api_job_pop from its await to line 1103 (lines 1084-1101)
JobPopArrives(outcomes) ==
    /\ ApiMayRun
    /\ pop_pc = "awaiting"
    /\ pop_gap' = 0
    /\ \/ /\ "error" \in outcomes
          /\ job_pop_frequency' = error_job_pop_frequency
          /\ last_pop_outcome' = "error"
          /\ pop_pc' = "idle"
       \/ /\ "no_job" \in outcomes
          /\ job_pop_frequency' = default_job_pop_frequency
          /\ last_pop_outcome' = "no_job"
          /\ pop_pc' = "idle"
       \/ /\ "job" \in outcomes
          /\ job_pop_frequency' = default_job_pop_frequency
          /\ last_pop_outcome' = "job"
          /\ pop_pc' = "locking"
    /\ UNCHANGED <<cfgVars, locks_held, registryVars, pipelineVars, process_message_queue,
                   pipes, testing_jobs_added, elapsed_since_pop, pc, submit_pc, child,
                   popped_ids, left_ids, submitted, records_created, uploaded_unscreened,
                   last_model_state, upload_status>>

\* line 1103: api_job_pop acquires the deque lock
JobPopAcquire ==
    /\ ApiMayRun
    /\ pop_pc = "locking"
    /\ LockFree("deque")
    /\ pop_pc' = "locked"
    /\ UNCHANGED <<cfgVars, locks_held, registryVars, pipelineVars, process_message_queue,
                   pipes, testing_jobs_added, job_pop_frequency, elapsed_since_pop, pc,
                   submit_pc, child, histVars>>

\* lines 1104-1105 and the release of the lock
JobPopAppend ==
    /\ ApiMayRun
    /\ pop_pc = "locked"
    /\ pop_pc' = "idle"
    /\ \E m \in Models :
          LET job == [id |-> testing_jobs_added + 1, model |-> m]
          IN  /\ job_deque' = Append(job_deque, job)
              /\ testing_jobs_added' = testing_jobs_added + 1
              /\ popped_ids' = Append(popped_ids, job.id)
    /\ UNCHANGED <<cfgVars, locks_held, registryVars, jobs_in_progress,
                   jobs_pending_safety_check, jobs_being_safety_checked, completed_jobs,
                   total_num_completed_jobs, process_message_queue, pipes,
                   job_pop_frequency, elapsed_since_pop, pc, submit_pc, child, left_ids,
                   submitted, records_created, uploaded_unscreened, last_model_state,
                   last_pop_outcome, pop_gap, upload_status>>

\* api_submit_job from its await to line 1025 (lines 1016-1024)
SubmitArrives(oks) ==
    /\ ApiMayRun
    /\ submit_pc = "awaiting"
    /\ upload_status' = 0
    /\ \E ok \in oks : submit_pc' = IF ok THEN "locking" ELSE "idle"
    /\ UNCHANGED <<cfgVars, locks_held, registryVars, pipelineVars, process_message_queue,
                   pipes, popVars, pc, child, popped_ids, left_ids, submitted,
                   records_created, uploaded_unscreened, last_model_state,
                   last_pop_outcome, pop_gap>>

\* line 1025: api_submit_job acquires the completed-queue lock
SubmitAcquire ==
    /\ ApiMayRun
    /\ submit_pc = "locking"
    /\ LockFree("completed")
    /\ submit_pc' = "locked"
    /\ UNCHANGED <<cfgVars, locks_held, registryVars, pipelineVars, process_message_queue,
                   pipes, popVars, pc, child, histVars>>

\* line 1026 and the release of the lock
SubmitRemove ==
    /\ ApiMayRun
    /\ submit_pc = "locked"
    /\ submit_pc' = "idle"
    /\ completed_jobs' = RemoveFirst(completed_jobs, completed_jobs[1])
    /\ submitted' = Append(submitted, completed_jobs[1].job.id)
    /\ UNCHANGED <<cfgVars, locks_held, registryVars, job_deque, jobs_in_progress,
                   jobs_pending_safety_check, jobs_being_safety_checked,
                   total_num_completed_jobs, process_message_queue, pipes, popVars, pc,
                   child, popped_ids, left_ids, records_created, uploaded_unscreened,
                   last_model_state, last_pop_outcome, pop_gap, upload_status>>

\* The steps of the process-control loop, with the acquires of line 1188
LockingControlStep ==
    \/ StartProcesses
    \/ \E p \in Pids : ReceiveAndHandle(p)
    \/ EndDispatch
    \/ StartEvaluateSafety
    \/ ShutdownCheck
    \/ PreloadModels
    \/ StartInference
    \/ UnloadModels
    \/ WakeToLock

\* The happy path with the locks at the grain of their acquires: the jobs of
\* a test run are popped, the children answer every control message, every
\* inference returns its image, every image passes and every upload and
\* submit succeeds.
NextLocks ==
    \/ LockingControlStep
    \/ AcquireDispatchLock
    \/ ApiCallLoopWith({UPLOAD_OK})
    \/ JobPopArrives(PopOutcomes)
    \/ JobPopAcquire
    \/ (JobPopAppend /\ EachJobItsModel)
    \/ SubmitArrives({TRUE})
    \/ SubmitAcquire
    \/ SubmitRemove
    \/ \E p \in Pids : ChildStart(p)
    \/ \E p \in Pids : ChildReceive(p)
    \/ \E p \in Pids : ChildFinishWith(p, {FALSE}, CleanEvaluations)

\* Every task of the event loop is run again and again; a task waiting for
\* an asyncio.Lock is woken in the order of arrival when the lock is
\* released, which is strong fairness of its acquire.
FairLocks ==
    /\ WF_vars(LockingControlStep)
    /\ SF_vars(AcquireDispatchLock)
    /\ SF_vars(JobPopAcquire)
    /\ SF_vars(SubmitAcquire)
    /\ SF_vars(JobPopAppend /\ EachJobItsModel)
    /\ SF_vars(SubmitRemove)

SpecLocks == InitHappy /\ [][NextLocks]_vars /\ FairLocks

(* ============================ properties ============================== *)
\* the load states in which a process holds, or is about to hold, a model
HeldStates == {"LOADING", "LOADED_IN_RAM", "LOADED_IN_VRAM"}

\* the job ids of a sequence of jobs or of completed-job records
JobIds(jobs) == [i \in DOMAIN jobs |-> jobs[i].id]
RecordIds(recs) == [i \in DOMAIN recs |-> recs[i].job.id]

\* C1: in every reachable state the number of jobs in jobs_in_progress is at
\* most max_concurrent_inference_processes.
C1_InProgressBounded ==
    Len(jobs_in_progress) <= max_concurrent_inference_processes

\* start_inference has run with jobs_in_progress full while a further job was
\* waiting whose model is loaded on a process that accepts jobs: only the
\* bound of line 772 kept it from starting.
C1_Witness ==
    /\ pc = "unload"
    /\ Len(jobs_in_progress) = max_concurrent_inference_processes
    /\ \E i \in DOMAIN job_deque :
          /\ \A k \in DOMAIN jobs_in_progress : jobs_in_progress[k] # job_deque[i]
          /\ horde_model_map[job_deque[i].model].state \in {"LOADED_IN_RAM", "LOADED_IN_VRAM"}
          /\ \E p \in Pids :
                /\ process_map[p].model = job_deque[i].model
                /\ process_map[p].state \in {"WAITING_FOR_JOB", "PRELOADED_MODEL"}

\* C2 as stated: at any instant every popped job id is in exactly one of the
\* deque, jobs_in_progress, jobs_pending_safety_check,
\* jobs_being_safety_checked, completed_jobs and the submitted jobs; so a job
\* in jobs_in_progress is not in the deque.
C2_ExactlyOneCollection ==
    LET collections == <<JobIds(job_deque), JobIds(jobs_in_progress),
                         RecordIds(jobs_pending_safety_check),
                         RecordIds(jobs_being_safety_checked),
                         RecordIds(completed_jobs), submitted>>
    IN  \A n \in DOMAIN popped_ids :
            Cardinality({c \in DOMAIN collections :
                            \E k \in DOMAIN collections[c] :
                                collections[c][k] = popped_ids[n]}) = 1

\* C2 amended: start_inference appends the job it starts to jobs_in_progress
\* and leaves the deque as it is, so that the job is then in both; the deque
\* gets shorter only when an InferenceResult is dispatched.
C2_StartKeepsJobInDeque ==
    [][/\ (pc = "start_inference" /\ jobs_in_progress' # jobs_in_progress) =>
              /\ job_deque' = job_deque
              /\ Len(jobs_in_progress') = Len(jobs_in_progress) + 1
              /\ \E i \in DOMAIN job_deque' :
                    job_deque'[i] = jobs_in_progress'[Len(jobs_in_progress')]
       /\ (Len(job_deque') < Len(job_deque)) =>
              /\ pc = "dispatch"
              /\ \E p \in Pids :
                    /\ process_message_queue[p] # <<>>
                    /\ process_message_queue'[p] = Tail(process_message_queue[p])
                    /\ Head(process_message_queue[p]).type = "InferenceResult"
      ]_vars

\* a job that start_inference has started is in jobs_in_progress and in the deque
C2_Witness ==
    /\ pc = "unload"
    /\ \E k \in DOMAIN jobs_in_progress :
          \E i \in DOMAIN job_deque : job_deque[i] = jobs_in_progress[k]

\* C3: for every popped job id at most one completed-job record is ever
\* created, and the id is at most once among the records waiting for, under
\* or past the safety check and the submitted jobs; for every
\* max_concurrent_inference_processes and every order of the results.
C3_OneRecordPerJob ==
    /\ \A id \in DOMAIN records_created : records_created[id] <= 1
    /\ LET downstream == RecordIds(jobs_pending_safety_check)
                            \o RecordIds(jobs_being_safety_checked)
                            \o RecordIds(completed_jobs) \o submitted
       IN  \A a, b \in DOMAIN downstream :
               downstream[a] = downstream[b] => a = b

\* C4: every record in completed_jobs has censored set, and api_submit_job
\* issues no upload (hence no submit request) for a record whose censored is
\* absent.
C4_CensoredSetBeforeSubmit ==
    /\ \A i \in DOMAIN completed_jobs : completed_jobs[i].censored \in {"true", "false"}
    /\ ~uploaded_unscreened

\* the upload of a screened record went through and its submit request is out
C4_Witness ==
    /\ submit_pc = "awaiting"
    /\ Len(completed_jobs) > 0
    /\ completed_jobs[1].censored \in {"true", "false"}

\* C5: for every process id at most one model of the model map has that
\* process as owner in a state LOADING, LOADED_IN_RAM or LOADED_IN_VRAM.
C5_OneHeldModelPerProcess ==
    \A p \in Pids :
        Cardinality({m \in Models : /\ horde_model_map[m].pid = p
                                    /\ horde_model_map[m].state \in HeldStates}) <= 1

\* C6: for every model in a state LOADING, LOADED_IN_RAM or LOADED_IN_VRAM
\* the loaded_horde_model_name of the model's owner is that model.
C6_OwnerResidentMatches ==
    \A m \in Models :
        horde_model_map[m].state \in HeldStates =>
            /\ horde_model_map[m].pid \in Pids
            /\ process_map[horde_model_map[m].pid].model = m

\* C7: the loaded_horde_model_name of a process is set only when the last
\* ModelStateChange dispatched from that process reported LOADED_IN_RAM or
\* LOADED_IN_VRAM.
C7_ResidentOnlyAfterLoadedReport ==
    \A p \in Pids :
        process_map[p].model # NoModel =>
            last_model_state[p] \in {"LOADED_IN_RAM", "LOADED_IN_VRAM"}

\* C8: whenever an InferenceResult is dispatched and a job is popped from
\* the left of the deque, the popped job has the id of the result's job.
C8_PoppedJobIsResultJob ==
    [][\A p \in Pids :
          (/\ pc = "dispatch"
           /\ process_message_queue[p] # <<>>
           /\ process_message_queue'[p] = Tail(process_message_queue[p])
           /\ Head(process_message_queue[p]).type = "InferenceResult"
           /\ Len(job_deque') < Len(job_deque))
          => Head(job_deque).id = Head(process_message_queue[p]).job.id
      ]_vars

C11_VerdictFollowsEvaluations ==
    [][\A p \in Pids :
          (/\ pc = "dispatch"
           /\ process_message_queue[p] # <<>>
           /\ process_message_queue'[p] = Tail(process_message_queue[p])
           /\ Head(process_message_queue[p]).type = "SafetyResult"
           /\ Len(completed_jobs') = Len(completed_jobs) + 1)
          => LET msg   == Head(process_message_queue[p])
                 rec   == completed_jobs'[Len(completed_jobs')]
                 prior == CHOOSE r \in {jobs_being_safety_checked[i] :
                                           i \in DOMAIN jobs_being_safety_checked} :
                              r.job.id = msg.job.id
                 any_csam     == \E i \in DOMAIN msg.evals : msg.evals[i].is_csam
                 any_censored == \E i \in DOMAIN msg.evals :
                                     msg.evals[i].replacement # "NONE"
             IN  IF any_csam
                 THEN rec.state = "csam" /\ rec.censored = "true"
                 ELSE IF any_censored
                      THEN rec.state = "censored" /\ rec.censored = "true"
                      ELSE rec.state = prior.state /\ rec.censored = "false"
      ]_vars

\* C12: the shutdown test of a tick succeeds (the process-control loop
\* exits) exactly when jobs_in_progress and the deque are empty and every
\* process in the registry has last state PROCESS_ENDED.
C12_ShutdownExactlyWhenAllEnded ==
    [][pc = "shutdown_check" =>
          (pc' = "done" <=>
              /\ Len(jobs_in_progress) = 0
              /\ Len(job_deque) = 0
              /\ \A p \in Pids : process_map[p].state = "PROCESS_ENDED")]_vars

\* C13: once the process-control loop has exited for shutdown the API loop
\* is cancelled: neither of its coroutines takes another step.
C13_ApiLoopCancelledAfterShutdown ==
    [][pc = "done" => UNCHANGED <<pop_pc, submit_pc, job_deque, completed_jobs,
                                  job_pop_frequency, elapsed_since_pop>>]_vars
\* the popped job waits in the deque and its model is not resident
C14_JobPoppedModelAbsent ==
    /\ Len(job_deque) = 1
    /\ horde_model_map[job_deque[1].model].state = "ABSENT"
C14_ModelIs(load_state) ==
    \E m \in Models :
        /\ horde_model_map[m].state = load_state
        /\ horde_model_map[m].pid \in Pids
        /\ process_map[horde_model_map[m].pid].kind = "INFERENCE"
C14_StartInferenceSent ==
    \E p \in Pids : \E i \in DOMAIN pipes[p] : pipes[p][i].flag = "START_INFERENCE"
C14_AllEmpty ==
    /\ completed_jobs = <<>> /\ job_deque = <<>> /\ jobs_in_progress = <<>>
    /\ jobs_pending_safety_check = <<>> /\ jobs_being_safety_checked = <<>>
    /\ submitted = <<1>>

\* C14: on the happy path, once the job is popped and its model is not
\* resident, the model becomes LOADING on an inference worker, StartInference
\* is sent, the model becomes LOADED_IN_VRAM, the record passes
\* jobs_pending_safety_check, jobs_being_safety_checked and completed_jobs
\* with censored = false, and eventually completed_jobs, the deque and
\* jobs_in_progress are empty, the job submitted.
C14_HappyPath ==
    /\ C14_JobPoppedModelAbsent ~> C14_ModelIs("LOADING")
    /\ C14_ModelIs("LOADING") ~> C14_StartInferenceSent
    /\ C14_StartInferenceSent
          ~> (C14_ModelIs("LOADED_IN_VRAM") /\ Len(jobs_in_progress) = 1)
    /\ (C14_ModelIs("LOADED_IN_VRAM") /\ Len(jobs_in_progress) = 1)
          ~> (Len(jobs_pending_safety_check) = 1)
    /\ (Len(jobs_pending_safety_check) = 1) ~> (Len(jobs_being_safety_checked) = 1)
    /\ (Len(jobs_being_safety_checked) = 1)
          ~> (Len(completed_jobs) = 1 /\ completed_jobs[1].censored = "false")
    /\ (Len(completed_jobs) = 1) ~> C14_AllEmpty

\* the job went through the pipeline and was submitted
C14_Witness ==
    /\ C14_AllEmpty
    /\ popped_ids = <<1>> /\ left_ids = <<1>>
    /\ \E m \in Models : horde_model_map[m].state = "LOADED_IN_VRAM"
\* C15: a job pop request that follows an attempt answered with an error
\* response or an exception is issued at least 5 s after that attempt; one
\* that follows an attempt answered without error, at least 1 s after it.
C15_PopBackoff ==
    pop_pc = "awaiting" =>
        /\ last_pop_outcome = "error" => pop_gap >= 5
        /\ last_pop_outcome \in {"no_job", "job"} => pop_gap >= 1

\* a request issued after a failed attempt that followed a successful one
C15_Witness ==
    /\ pop_pc = "awaiting"
    /\ last_pop_outcome = "error" /\ pop_gap = 5
    /\ testing_jobs_added > 0
\* C16: a record leaves completed_jobs only at a submit response that is not
\* an error, received for an upload that succeeded; a failed upload and a
\* failed submit leave completed_jobs as it was, and api_submit_job is then
\* ready to upload the same head record again.
C16_RemovedOnlyAfterSubmit ==
    [][/\ Len(completed_jobs') < Len(completed_jobs) =>
             /\ submit_pc = "awaiting" /\ upload_status = 200
             /\ completed_jobs' = Tail(completed_jobs)
             /\ submitted' = Append(submitted, completed_jobs[1].job.id)
       /\ (submit_pc = "awaiting" /\ submit_pc' = "idle" /\ submitted' = submitted) =>
             /\ completed_jobs' = completed_jobs
             /\ UploadDue'
       /\ (upload_status' \notin {0, 200} /\ upload_status' # upload_status) =>
             /\ completed_jobs' = completed_jobs
             /\ submit_pc' = "idle" /\ UploadDue'
      ]_vars

\* after a failed upload the record is still the head of completed_jobs and
\* nothing was submitted
C16_Witness ==
    /\ upload_status = 500
    /\ submit_pc = "idle"
    /\ Len(completed_jobs) > 0 /\ submitted = <<>>

\* C17: an upload answered with any 2xx status is followed by the submit
\* request.
C17_Any2xxIsSuccess ==
    upload_status \in 200..299 => submit_pc = "awaiting"
\* C18: the process-control loop ends only at the shutdown test of a tick,
\* when is_time_for_shutdown is true: no exception raised in a tick ends it.
C18_LoopEndsOnlyForShutdown ==
    [][(pc \notin {"done", "crashed"} /\ pc' \in {"done", "crashed"}) =>
          (pc = "shutdown_check" /\ is_time_for_shutdown /\ pc' = "done")]_vars
\* C19: the dispatch of a message of any kind whose process id is not in the
\* registry raises (the tick ends with the error) and leaves the registry,
\* the model map and the pipeline collections as they were.
C19_UnknownPidRejected ==
    [][\A p \in Pids :
          (/\ pc = "dispatch"
           /\ process_message_queue[p] # <<>>
           /\ process_message_queue'[p] = Tail(process_message_queue[p])
           /\ Head(process_message_queue[p]).pid \notin Pids)
          => /\ pc' = "crashed"
             /\ UNCHANGED <<process_map, horde_model_map, job_deque, jobs_in_progress,
                            jobs_pending_safety_check, jobs_being_safety_checked,
                            completed_jobs, total_num_completed_jobs>>
      ]_vars

\* a report of an unknown process was dispatched while a job was in the pipeline
C19_Witness ==
    /\ pc = "crashed"
    /\ \A p \in Pids : \A i \in DOMAIN process_message_queue[p] :
          process_message_queue[p][i].pid \in Pids
    /\ Len(job_deque) + Len(jobs_being_safety_checked) + Len(completed_jobs) > 0
\* C20: from the dispatcher to the end of the tick, the scheduler steps
\* included, the process-control loop holds the deque lock, the safety-queue
\* lock and the completed-queue lock, acquired in that order.
C20_LocksHeldWholeTick ==
    pc \in {"dispatch", "safety", "shutdown_check", "preload", "start_inference", "unload"}
        => locks_held = <<"deque", "safety", "completed">>

\* C20 (amended): the three locks are acquired in that order before the
\* dispatcher runs and are held while it runs; they are released when it
\* returns: start_evaluate_safety runs under the safety-queue lock alone, the
\* shutdown test, preload, start inference and evict under none of them.
C20_LocksHeldForDispatcher ==
    /\ pc = "dispatch" => locks_held = <<"deque", "safety", "completed">>
    /\ pc = "safety" =>
          locks_held = IF Len(jobs_pending_safety_check) > 0 THEN <<"safety">> ELSE <<>>
    /\ pc \in {"shutdown_check", "preload", "start_inference", "unload", "sleep"}
          => locks_held = <<>>

\* start inference is about to run, after a preload, with no lock held
C20_Witness ==
    /\ pc = "start_inference"
    /\ locks_held = <<>>
    /\ \E p \in Pids : pipes[p] # <<>>
\* a control message with this flag is appended to the pipe of p in this step
SentTo(p, flag) ==
    /\ Len(pipes'[p]) > Len(pipes[p])
    /\ \E i \in (Len(pipes[p]) + 1)..Len(pipes'[p]) : pipes'[p][i].flag = flag

\* the dispatcher takes a report of this type from the stream of p in this step
Dispatched(p, type) ==
    /\ pc = "dispatch"
    /\ process_message_queue[p] # <<>>
    /\ process_message_queue'[p] = Tail(process_message_queue[p])
    /\ Head(process_message_queue[p]).type = type

\* C21: after the dispatch of a ModelStateChange with state ON_DISK from a
\* process, and after unload_models evicted the model of a process, the
\* loaded_horde_model_name of that process is None.
C21_ResidentClearedOnUnload ==
    [][\A p \in Pids :
          /\ (Dispatched(p, "ModelStateChange")
                 /\ Head(process_message_queue[p]).mstate = "ON_DISK"
                 /\ pc' # "crashed")
              => process_map'[Head(process_message_queue[p]).pid].model = NoModel
          /\ (pc = "unload" /\ SentTo(p, "UNLOAD_MODELS_FROM_RAM"))
              => process_map'[p].model = NoModel
      ]_vars
\* loaded_horde_model_name of every process, load state of every model
Residents == [p \in Pids |-> process_map[p].model]
LoadStates == [m \in Models |-> horde_model_map[m].state]

\* C22: no step of the tick after the dispatcher and no API loop operation
\* changes a loaded_horde_model_name or a model's load state.
C22_OnlyDispatcherWrites ==
    [][(pc \in {"safety", "shutdown_check", "preload", "start_inference", "unload",
                "sleep", "done"})
          => UNCHANGED <<Residents, LoadStates>>
      ]_vars

\* C22 (amended): the writers are the dispatcher, preload_models and
\* unload_models.  preload_models changes them only for the model it sends
\* PreloadModel for, which becomes LOADING and the loaded_horde_model_name of
\* the recipient; unload_models changes a load state only to ON_DISK, for a
\* model it sends UnloadFromRAM for; start_inference, start_evaluate_safety,
\* the shutdown test and the API loop operations change none.
C22_WritersOfResidentAndLoadState ==
    [][/\ pc \in {"safety", "shutdown_check", "start_inference", "sleep", "done"}
             => (Residents' = Residents /\ LoadStates' = LoadStates)
       /\ pc = "preload" =>
             /\ \A m \in Models : LoadStates'[m] # LoadStates[m] =>
                    /\ LoadStates'[m] = "LOADING"
                    /\ \E p \in Pids : SentTo(p, "PRELOAD_MODEL") /\ Residents'[p] = m
             /\ \A p \in Pids : Residents'[p] # Residents[p] =>
                    /\ SentTo(p, "PRELOAD_MODEL")
                    /\ LoadStates'[Residents'[p]] = "LOADING"
       /\ pc = "unload" =>
             \A m \in Models : LoadStates'[m] # LoadStates[m] =>
                    /\ LoadStates'[m] = "ON_DISK"
                    /\ \E p \in Pids : SentTo(p, "UNLOAD_MODELS_FROM_RAM")
      ]_vars

\* unload_models has just evicted a model that preload_models had loaded
C22_Witness ==
    /\ pc = "sleep"
    /\ \E p \in Pids :
          /\ pipes[p] # <<>>
          /\ pipes[p][Len(pipes[p])].flag = "UNLOAD_MODELS_FROM_RAM"
          /\ LoadStates[pipes[p][Len(pipes[p])].model] = "ON_DISK"

\* the control message appended last to the pipe of p in this step
LastSent(p) == pipes'[p][Len(pipes'[p])]

\* C23: StartInference is sent only for the leftmost deque job that is not in
\* jobs_in_progress, whose model the model map records as LOADED_IN_RAM or
\* LOADED_IN_VRAM, and only to the process the model map records as the owner
\* of that model, which is in can_accept_job.
C23_StartInferenceToOwner ==
    [][\A p \in Pids :
          SentTo(p, "START_INFERENCE") =>
             LET job == LastSent(p).job
             IN  /\ NextJobIndex # 0
                 /\ job = job_deque[NextJobIndex]
                 /\ is_loaded(horde_model_map[job.model].state)
                 /\ horde_model_map[job.model].pid = p
                 /\ can_accept_job(process_map[p].state)
      ]_vars

\* the processes that are sent END_PROCESS in this step
EndProcessRecipients == {p \in Pids : SentTo(p, "END_PROCESS")}

\* C24: when end_inference_processes ends k processes (the current number less
\* the configured one, or the current number during shutdown), k distinct
\* inference processes that are in can_accept_job each receive exactly one
\* END_PROCESS.
C24_EndsDistinctIdleWorkers ==
    [][EndProcessRecipients # {} =>
          /\ Cardinality(EndProcessRecipients) = num_processes_to_end(max_inference_processes')
          /\ \A p \in EndProcessRecipients :
                /\ process_map[p].kind = "INFERENCE"
                /\ can_accept_job(process_map[p].state)
                /\ Len(pipes'[p]) = Len(pipes[p]) + 1
      ]_vars

\* the flags of the control messages of preload_models, start_inference and
\* unload_models
SchedulerFlags ==
    {"PRELOAD_MODEL", "START_INFERENCE", "UNLOAD_MODELS_FROM_VRAM", "UNLOAD_MODELS_FROM_RAM"}

\* C25: in every tick, once the dispatcher has returned, preload_models,
\* start_inference, unload_models and start_evaluate_safety run in this order,
\* whatever the number of idle processes and the length of the deque.
C25_FourStepsEveryTick ==
    [][/\ (pc = "dispatch" /\ pc' \notin {"dispatch", "crashed"}) => pc' = "preload"
       /\ pc = "preload" => pc' = "start_inference"
       /\ pc = "start_inference" => pc' = "unload"
       /\ pc = "unload" => pc' \in {"safety", "crashed"}
      ]_vars

\* C25 (amended): once the dispatcher has returned, start_evaluate_safety runs
\* first and the shutdown test second; preload_models, start_inference and
\* unload_models follow in this order, and only in a tick in which an
\* inference process can accept a job and the deque is not empty: in any other
\* tick none of them runs and none of their control messages is sent.
C25_SafetyFirstSchedulerGuarded ==
    [][/\ (pc = "dispatch" /\ pc' \notin {"dispatch", "crashed"}) => pc' = "safety"
       /\ pc = "safety" => pc' \in {"shutdown_check", "crashed"}
       /\ (pc = "shutdown_check" /\ pc' = "preload") =>
             /\ num_available_inference_processes(process_map) > 0
             /\ Len(job_deque) > 0
       /\ pc = "shutdown_check" => pc' \in {"done", "preload", "sleep"}
       /\ pc = "preload" => pc' = "start_inference"
       /\ pc = "start_inference" => pc' = "unload"
       /\ pc = "unload" => pc' \in {"sleep", "crashed"}
       /\ (\E p \in Pids : \E f \in SchedulerFlags : SentTo(p, f)) =>
             /\ pc \in {"preload", "start_inference", "unload"}
             /\ num_available_inference_processes(process_map) > 0
             /\ Len(job_deque) > 0
       /\ (\E p \in Pids : SentTo(p, "EVALUATE_SAFETY")) => pc = "safety"
      ]_vars

\* a tick ends without the scheduler: the deque is empty while an idle
\* inference process has a model, and a record is with the safety process
C25_Witness ==
    /\ pc = "sleep"
    /\ Len(job_deque) = 0
    /\ Len(jobs_being_safety_checked) > 0
    /\ \E p \in Pids : /\ process_map[p].kind = "INFERENCE"
                        /\ can_accept_job(process_map[p].state)
                        /\ process_map[p].model # NoModel

\* C26: one call of preload_models sends at most one PRELOAD_MODEL, to an
\* INFERENCE process that is in can_accept_job, and the model it names is the
\* model of the first job of the deque, from the left, whose model is neither
\* loaded nor loading.
C26_OnePreloadForFirstUnloaded ==
    [][pc = "preload" =>
          /\ Cardinality({p \in Pids : pipes'[p] # pipes[p]}) <= 1
          /\ \A p \in Pids :
                pipes'[p] # pipes[p] =>
                    LET msg == LastSent(p)
                    IN  /\ pipes'[p] = Append(pipes[p], msg)
                        /\ msg.flag = "PRELOAD_MODEL"
                        /\ process_map[p].kind = "INFERENCE"
                        /\ can_accept_job(process_map[p].state)
                        /\ \E i \in DOMAIN job_deque :
                              /\ job_deque[i].model = msg.model
                              /\ horde_model_map[msg.model].state \notin HeldStates
                              /\ \A j \in 1..(i - 1) :
                                    horde_model_map[job_deque[j].model].state \in HeldStates
      ]_vars

\* preload_models has just sent PRELOAD_MODEL for the first of two jobs with
\* different models
C26_Witness ==
    /\ pc = "start_inference"
    /\ Len(job_deque) = 2
    /\ job_deque[1].model # job_deque[2].model
    /\ horde_model_map[job_deque[2].model].state \notin HeldStates
    /\ \E p \in Pids :
          /\ pipes[p] # <<>>
          /\ pipes[p][Len(pipes[p])].flag = "PRELOAD_MODEL"
          /\ pipes[p][Len(pipes[p])].model = job_deque[1].model

\* the models of the jobs of the deque, and those of them that are loaded or
\* loading
DequeModels == {job_deque[i].model : i \in DOMAIN job_deque}
WarmDequeModels == {m \in DequeModels : horde_model_map[m].state \in HeldStates}

Minimum(a, b) == IF a <= b THEN a ELSE b

\* every inference process can accept a job and nothing is in flight
FleetIdle ==
    /\ \A p \in Pids : process_map[p].kind = "INFERENCE" => can_accept_job(process_map[p].state)
    /\ \A p \in Pids : pipes[p] = <<>> /\ process_message_queue[p] = <<>>
    /\ \A p \in Pids : child[p].phase = "idle"

\* C27: with the inference processes idle and the deque fixed, preload_models
\* keeps preloading until the number of loaded or loading models of the deque
\* is at least the smaller of the number of distinct models of the deque and
\* the number of inference processes, also when jobs at the head of the deque
\* share a model: it does not stop preloading before.
C27_PreloadUntilWarm ==
    (/\ pc = "preload"
     /\ FleetIdle
     /\ PreloadDecision(process_map, horde_model_map, job_deque).pid = NoPid)
    => Cardinality(WarmDequeModels)
          >= Minimum(Cardinality(DequeModels), num_inference_processes(process_map))

\* m is one of the first n distinct models of the deque
AmongNextModels(m, n) ==
    \E i \in DOMAIN job_deque :
        /\ job_deque[i].model = m
        /\ Cardinality({job_deque[j].model : j \in 1..(i - 1)}) < n

\* the ram_usage_bytes reported, summed over the processes
ReportedRam[P \in SUBSET Pids] ==
    IF P = {} THEN 0
    ELSE LET p == CHOOSE q \in P : TRUE IN process_map[p].ram + ReportedRam[P \ {p}]

\* C28: unload_models sends UNLOAD_MODELS_FROM_RAM to a process only if the
\* process is not busy, the model it has is not LOADING and is not among the
\* next max_concurrent_inference_processes distinct models of the deque, and
\* the RAM the processes report is, in sum, strictly more than the total RAM
\* less the overhead.
C28_EvictsOnlyIdleUnneededOverBudget ==
    [][\A p \in Pids :
          (pc = "unload" /\ SentTo(p, "UNLOAD_MODELS_FROM_RAM")) =>
              /\ ~is_process_busy(process_map[p])
              /\ process_map[p].model # NoModel
              /\ horde_model_map[process_map[p].model].state # "LOADING"
              /\ ~AmongNextModels(process_map[p].model, max_concurrent_inference_processes)
              /\ ReportedRam[Pids] > total_ram_bytes - target_ram_overhead_bytes
      ]_vars

\* unload_models has evicted the model of one process while a job for another
\* model waits in the deque
C28_Witness ==
    /\ pc = "sleep"
    /\ Len(job_deque) > 0
    /\ \E p \in Pids :
          /\ pipes[p] # <<>>
          /\ pipes[p][Len(pipes[p])].flag = "UNLOAD_MODELS_FROM_RAM"
          /\ pipes[p][Len(pipes[p])].model # job_deque[1].model
          /\ ReportedRam[Pids] > total_ram_bytes - target_ram_overhead_bytes

\* the processes that are sent EVALUATE_SAFETY in this step
EvaluateRecipients == {p \in Pids : SentTo(p, "EVALUATE_SAFETY")}

\* C29: start_evaluate_safety moves a record from jobs_pending_safety_check to
\* jobs_being_safety_checked exactly when it sends EVALUATE_SAFETY for it.  The
\* record is the head of jobs_pending_safety_check, the recipient is a SAFETY
\* process in can_accept_job, one record at most is moved in a tick, and
\* without an available safety process both queues stay as they are.
C29_MovedExactlyWhenEvaluationSent ==
    [][pc = "safety" =>
          /\ (jobs_pending_safety_check' # jobs_pending_safety_check
                \/ jobs_being_safety_checked' # jobs_being_safety_checked)
               <=> EvaluateRecipients # {}
          /\ EvaluateRecipients # {} =>
                /\ jobs_pending_safety_check # <<>>
                /\ jobs_pending_safety_check' = Tail(jobs_pending_safety_check)
                /\ jobs_being_safety_checked' =
                       Append(jobs_being_safety_checked, Head(jobs_pending_safety_check))
                /\ Cardinality(EvaluateRecipients) = 1
                /\ \A p \in EvaluateRecipients :
                      /\ pipes'[p] = Append(pipes[p], LastSent(p))
                      /\ LastSent(p).job = Head(jobs_pending_safety_check).job
                      /\ LastSent(p).images = Head(jobs_pending_safety_check).images
                      /\ process_map[p].kind = "SAFETY"
                      /\ can_accept_job(process_map[p].state)
          /\ (\A p \in Pids : ~(process_map[p].kind = "SAFETY"
                                 /\ can_accept_job(process_map[p].state)))
               => UNCHANGED <<jobs_pending_safety_check, jobs_being_safety_checked, pipes>>
      ]_vars

\* start_evaluate_safety has just handed the only pending record to the
\* safety process
C29_Witness ==
    /\ pc = "shutdown_check"
    /\ jobs_pending_safety_check = <<>>
    /\ jobs_being_safety_checked # <<>>
    /\ \E p \in Pids :
          /\ process_map[p].kind = "SAFETY"
          /\ pipes[p] # <<>>
          /\ pipes[p][Len(pipes[p])].flag = "EVALUATE_SAFETY"
          /\ pipes[p][Len(pipes[p])].job =
                jobs_being_safety_checked[Len(jobs_being_safety_checked)].job

\* C30: a job pop is requested only while the deque holds fewer than
\* queue_size + 1 jobs, and in every state the deque holds at most
\* queue_size + 1 jobs.
C30_DequeBounded ==
    [][/\ (pop_pc = "idle" /\ pop_pc' = "awaiting") => Len(job_deque) < queue_size + 1
       /\ Len(job_deque') <= queue_size' + 1
      ]_vars

\* the deque is full while the API would offer more jobs, and a job has been
\* popped into every place of it
C30_Witness ==
    /\ Len(job_deque) = queue_size + 1
    /\ testing_jobs_added < MaxJobs
    /\ last_pop_outcome = "job"
    /\ pop_pc = "idle"

\* C31: total_num_completed_jobs is the number of records in
\* jobs_pending_safety_check, jobs_being_safety_checked and completed_jobs
\* plus the number of records removed after a successful submit.
C31_CompletedWorkConserved ==
    total_num_completed_jobs =
        Len(jobs_pending_safety_check) + Len(jobs_being_safety_checked)
            + Len(completed_jobs) + Len(submitted)

\* one job was submitted and removed while the record of another one waits in
\* completed_jobs
C31_Witness ==
    /\ Len(submitted) = 1
    /\ Len(completed_jobs) = 1
    /\ total_num_completed_jobs = 2


\* C32: the process-control loop and the API tasks never deadlock on the
\* deque lock, the safety-queue lock and the completed-queue lock: a task
\* waiting at an acquire eventually holds the lock it waits for.
C32_LockWaitersAcquire ==
    /\ (pc = "locking") ~> (pc = "dispatch")
    /\ (pop_pc = "locking") ~> (pop_pc = "locked")
    /\ (submit_pc = "locking") ~> (submit_pc = "locked")

\* a chain of waiting tasks: api_job_pop waits for the deque lock, which the
\* process-control loop holds while it waits for the completed-queue lock,
\* which api_submit_job holds
C32_Witness ==
    /\ pop_pc = "locking"
    /\ pc = "locking" /\ locks_held = <<"deque", "safety">>
    /\ submit_pc = "locked"


\* the jobs of jobs_in_progress that the process p was sent and has not
\* reported a result for that the dispatcher handled: the StartInference is in
\* the pipe of p, or p works on the job, or the result waits in its stream
JobsHeldBy(p) ==
    {j \in {jobs_in_progress[i] : i \in 1..Len(jobs_in_progress)} :
        \/ \E i \in 1..Len(pipes[p]) :
              pipes[p][i].flag = "START_INFERENCE" /\ pipes[p][i].job = j
        \/ child[p].phase = "inferring" /\ child[p].job = j
        \/ \E i \in 1..Len(process_message_queue[p]) :
              /\ process_message_queue[p][i].type = "InferenceResult"
              /\ process_message_queue[p][i].job = j}

\* C33: an inference process is never sent a StartInference while a job it
\* was sent earlier is still in jobs_in_progress.
C33_NoStartWhileJobHeld ==
    [][\A p \in Pids : SentTo(p, "START_INFERENCE") => JobsHeldBy(p) = {}]_vars


\* C34: whenever the dispatcher handles an InferenceResult with images, the
\* deque is non-empty when its left end is popped.
C34_DequeNonEmptyAtPop ==
    [][\A p \in Pids :
          (Dispatched(p, "InferenceResult")
              /\ ~Head(process_message_queue[p]).images_none) =>
             Len(job_deque) > 0]_vars


\* C35: once the InferenceResult of a process for a job is dispatched, with
\* or without images, the job is no longer in jobs_in_progress.
C35_ResultEndsInProgress ==
    [][\A p \in Pids :
          Dispatched(p, "InferenceResult") =>
             \A i \in 1..Len(jobs_in_progress') :
                jobs_in_progress'[i].id # Head(process_message_queue[p]).job.id]_vars


\* C36: every process that unload_models selects for eviction has a resident
\* model that the model map records as loaded, so unload_from_ram does not
\* raise in a scheduler tick.
C36_EvictedModelIsLoaded ==
    [][(pc = "unload") => (pc' # "crashed")]_vars
====
